---- MODULE Spec2Model ----
(***************************************************************************)
(* ronin-api-wrapper (src/index.js): fourteen async functions that each    *)
(* build a URL, issue one axios request and return part of the response,   *)
(* the caught error, or the string "Invalid address".                      *)
(*                                                                         *)
(* JavaScript strings are sequences of one-character strings, so that      *)
(* startsWith, length, replace and template interpolation are computed     *)
(* character by character.  JavaScript values are tagged records.          *)
(***************************************************************************)
EXTENDS Integers, Sequences, FiniteSets, TLC

VARIABLES calls, harness

vars == <<calls, harness>>

\* ------------------------------------------------------------ bounds ----

\* longest argument string the inputs are drawn from
MaxLen == 47

\* largest number passed as from, size or blockNumber
MaxNum == 12

\* ------------------------------------------------- JavaScript values ----

Str(s) == [t |-> "string", s |-> s]

Num(n) == [t |-> "number", n |-> n]

Bool(b) == [t |-> "boolean", b |-> b]

Undefined == [t |-> "undefined"]

Null == [t |-> "null"]

\* an object is its member list, a sequence of <<key, value>> pairs
Obj(members) == [t |-> "object", o |-> members]

Arr(elems) == [t |-> "array", a |-> elems]

\* an Error instance, identified by its message
Err(message) == [t |-> "error", e |-> message]

\* the TypeError raised by calling a method that the receiver does not have
TypeError == Err("TypeError")

\* completion records of an evaluation: a value, or a thrown value
Normal(v) == [c |-> "normal", v |-> v]

Throw(e) == [c |-> "throw", v |-> e]

\* ------------------------------------------------------- string data ----

RONIN ==
  <<"r", "o", "n", "i", "n">>

RONIN_COLON ==
  <<"r", "o", "n", "i", "n", ":">>

HEX_PREFIX ==
  <<"0", "x">>

ADDRESS_LENGTH == 46

INVALID_ADDRESS ==
  <<"I", "n", "v", "a", "l", "i", "d", " ", "a", "d", "d", "r", "e", "s",
    "s">>

EXPLORER_HOST ==
  <<"h", "t", "t", "p", "s", ":", "/", "/", "e", "x", "p", "l", "o", "r",
    "e", "r", ".", "r", "o", "n", "i", "n", "c", "h", "a", "i", "n", ".",
    "c", "o", "m">>

NEXT_DATA ==
  <<"/", "_", "n", "e", "x", "t", "/", "d", "a", "t", "a", "/", "M", "P",
    "4", "A", "p", "Q", "g", "Q", "g", "I", "M", "e", "n", "7", "_", "H",
    "0", "K", "n", "j", "R">>

DECODER_URL ==
  <<"h", "t", "t", "p", "s", ":", "/", "/", "d", "e", "c", "o", "d", "e",
    "r", ".", "r", "o", "n", "i", "n", "c", "h", "a", "i", "n", ".", "c",
    "o", "m", "/", "d", "e", "c", "o", "d", "e", "r", "/", "a", "c", "t",
    "i", "o", "n", "s">>

EXCHANGE_URL ==
  <<"h", "t", "t", "p", "s", ":", "/", "/", "e", "x", "c", "h", "a", "n",
    "g", "e", "-", "r", "a", "t", "e", ".", "a", "x", "i", "e", "i", "n",
    "f", "i", "n", "i", "t", "y", ".", "c", "o", "m", "/">>

WORD_UNDEFINED ==
  <<"u", "n", "d", "e", "f", "i", "n", "e", "d">>

WORD_NULL ==
  <<"n", "u", "l", "l">>

WORD_OBJECT ==
  <<"[", "o", "b", "j", "e", "c", "t", " ", "O", "b", "j", "e", "c", "t",
    "]">>

DIGITS ==
  <<"0", "1", "2", "3", "4", "5", "6", "7", "8", "9">>

\* --------------------------------------------- string built-ins used ----

\* String.prototype.startsWith(searchString) at position 0
startsWith(s, searchString) ==
  /\ Len(searchString) <= Len(s)
  /\ SubSeq(s, 1, Len(searchString)) = searchString

\* 1-based index of the first occurrence of pattern in s, 0 when absent
indexOf(s, pattern) ==
  LET hits == {i \in 1..(Len(s) - Len(pattern) + 1) :
                 SubSeq(s, i, i + Len(pattern) - 1) = pattern}
  IN  IF hits = {} THEN 0
      ELSE CHOOSE i \in hits : \A j \in hits : i <= j

\* String.prototype.replace(pattern, replacement) with a string pattern:
\* only the first occurrence is replaced
replace(s, pattern, replacement) ==
  LET i == indexOf(s, pattern)
  IN  IF i = 0 THEN s
      ELSE SubSeq(s, 1, i - 1) \o replacement
             \o SubSeq(s, i + Len(pattern), Len(s))

RECURSIVE NumberToString(_)
\* decimal digits of a non-negative integer, as `${n}` renders it
NumberToString(n) ==
  IF n < 10 THEN <<DIGITS[n + 1]>>
  ELSE NumberToString(n \div 10) \o <<DIGITS[(n % 10) + 1]>>

\* `${v}`: ToString of a value interpolated into a template literal
Interpolate(v) ==
  CASE v.t = "string"    -> v.s
    [] v.t = "number"    -> NumberToString(v.n)
    [] v.t = "undefined" -> WORD_UNDEFINED
    [] v.t = "null"      -> WORD_NULL
    [] v.t = "object"    -> WORD_OBJECT

\* member access v.key on a value that is not null or undefined
Get(v, key) ==
  IF v.t = "object" /\ \E i \in 1..Len(v.o) : v.o[i][1] = key
  THEN v.o[CHOOSE i \in 1..Len(v.o) :
             /\ v.o[i][1] = key
             /\ \A j \in 1..Len(v.o) : v.o[j][1] = key => i <= j][2]
  ELSE Undefined

\* bug variant: plain member access v.key, which throws a TypeError on null
\* and undefined; inside the try block the catch block then returns it
OptGet_plain(v, key) ==
  IF v.t \in {"null", "undefined"} THEN TypeError ELSE Get(v, key)

\* optional chaining v?.key
OptGet(v, key) ==
  IF v.t \in {"null", "undefined"} THEN Undefined ELSE Get(v, key)

\* a parameter with a default value: the default applies when the argument
\* is omitted or undefined
Default(v, d) == IF v = Undefined THEN d ELSE v

\* ------------------------------------------------ address functions -----

\* bug variant: demands the colon of the documented 'ronin:' format
isRoninAddressValid_colon(roninAddress) ==
  IF roninAddress.t # "string" THEN Throw(TypeError)
  ELSE Normal(Bool(/\ startsWith(roninAddress.s, RONIN_COLON)
                   /\ Len(roninAddress.s) = ADDRESS_LENGTH))

\* bug variant: `<=` in place of `===`
isRoninAddressValid_atMost(roninAddress) ==
  IF roninAddress.t # "string" THEN Throw(TypeError)
  ELSE Normal(Bool(/\ startsWith(roninAddress.s, RONIN)
                   /\ Len(roninAddress.s) <= ADDRESS_LENGTH))

\* bug variant: `||` in place of `&&`
isRoninAddressValid_or(roninAddress) ==
  IF roninAddress.t # "string" THEN Throw(TypeError)
  ELSE Normal(Bool(\/ startsWith(roninAddress.s, RONIN)
                   \/ Len(roninAddress.s) = ADDRESS_LENGTH))

\* function isRoninAddressValid(roninAddress): a non-string argument has no
\* startsWith method, so the call throws a TypeError
isRoninAddressValid(roninAddress) ==
  IF roninAddress.t # "string" THEN Throw(TypeError)
  ELSE Normal(Bool(/\ startsWith(roninAddress.s, RONIN)
                   /\ Len(roninAddress.s) = ADDRESS_LENGTH))

\* bug variant: "0x" + roninAddress.slice(6), the prefix cut by position
transformFromRoninAddress_slice(roninAddress) ==
  IF roninAddress.t # "string" THEN Throw(TypeError)
  ELSE Normal(Str(HEX_PREFIX \o SubSeq(roninAddress.s, Len(RONIN_COLON) + 1,
                                        Len(roninAddress.s))))

\* function transformFromRoninAddress(roninAddress)
transformFromRoninAddress(roninAddress) ==
  IF roninAddress.t # "string" THEN Throw(TypeError)
  ELSE Normal(Str(replace(roninAddress.s, RONIN_COLON, HEX_PREFIX)))

\* ------------------------------------------------------ URL templates ----

\* bug variant: the hex form of the address, as the REST endpoints take it
explorerGetAccount_url_hex(roninAddress) ==
  EXPLORER_HOST \o NEXT_DATA
    \o <<"/", "a", "d", "d", "r", "e", "s", "s", "/">>
    \o replace(Interpolate(roninAddress), RONIN_COLON, HEX_PREFIX)
    \o <<".", "j", "s", "o", "n", "?", "a", "d", "d", "r", "e", "s", "s", "=">>
    \o replace(Interpolate(roninAddress), RONIN_COLON, HEX_PREFIX)

\* line 32
explorerGetAccount_url(roninAddress) ==
  EXPLORER_HOST \o NEXT_DATA \o <<"/", "a", "d", "d", "r", "e", "s", "s",
       "/">>
    \o Interpolate(roninAddress) \o <<".", "j", "s", "o", "n", "?", "a",
       "d", "d", "r", "e", "s", "s", "=">>
    \o Interpolate(roninAddress)

\* line 102
explorerGetTransactions_url(modifiedRoninAddress, from, size) ==
  EXPLORER_HOST \o <<"/", "a", "p", "i", "/", "t", "x", "s", "/">>
    \o Interpolate(modifiedRoninAddress) \o <<"?", "f", "r", "o", "m", "=">>
    \o Interpolate(from) \o <<"&", "s", "i", "z", "e",
       "=">> \o Interpolate(size)

\* line 189
explorerGetERCTransfersByRoninAddress_url(modifiedRoninAddress, ercSuffix, from, size) ==
  EXPLORER_HOST \o <<"/", "a", "p", "i", "/", "t", "o", "k", "e", "n",
       "t", "x", "s", "?", "a", "d", "d", "r", "=">>
    \o Interpolate(modifiedRoninAddress) \o <<"&", "f", "r", "o", "m", "=">>
    \o Interpolate(from) \o <<"&", "s", "i", "z", "e",
       "=">> \o Interpolate(size)
    \o <<"&", "t", "o", "k", "e", "n", "=", "E", "R",
       "C">> \o Interpolate(ercSuffix)

\* line 249
explorerGetLatestBlocks_url(size) ==
  EXPLORER_HOST \o <<"/", "a", "p", "i", "/", "b", "l", "o", "c", "k",
       "s", "?", "s", "i", "z", "e", "=">> \o Interpolate(size)

\* line 311
explorerGetLatestTransactions_url(size) ==
  EXPLORER_HOST \o <<"/", "a", "p", "i", "/", "t", "x", "s", "?", "s",
       "i", "z", "e", "=">> \o Interpolate(size)

\* line 351
explorerGet14DayTransactionVolumes_url ==
  EXPLORER_HOST \o NEXT_DATA \o <<"/", "i", "n", "d", "e", "x", ".", "j",
       "s", "o", "n">>

\* line 391
explorerGetERC20Tokens_url ==
  EXPLORER_HOST \o NEXT_DATA \o <<"/", "t", "o", "k", "e", "n", "s", ".",
       "j", "s", "o", "n">>

\* line 438
explorerGetERC20Transfers_url ==
  EXPLORER_HOST \o NEXT_DATA \o <<"/", "t", "o", "k", "e", "n", "t", "x",
       "n", "s", ".", "j", "s", "o", "n">>

\* line 489
explorerGetERC721Tokens_url ==
  EXPLORER_HOST \o NEXT_DATA \o <<"/", "t", "o", "k", "e", "n", "s", "-",
       "n", "f", "t", ".", "j", "s", "o", "n">>

\* line 535
explorerGetERC721Transfers_url ==
  EXPLORER_HOST \o NEXT_DATA
    \o <<"/", "t", "o", "k", "e", "n", "t", "x", "n", "s", "-", "n", "f",
       "t", ".", "j", "s", "o", "n">>

\* line 572
explorerGetTransactionDetails_url(txHash) ==
  EXPLORER_HOST \o NEXT_DATA \o <<"/", "t", "x", "/">> \o Interpolate(txHash)
    \o <<".", "j", "s", "o", "n", "?", "t", "x", "H", "a", "s", "h",
       "=">> \o Interpolate(txHash)

\* line 611
explorerGetBlockDetails_url(blockNumber) ==
  EXPLORER_HOST \o NEXT_DATA \o <<"/", "b", "l", "o", "c", "k", "/">>
    \o Interpolate(blockNumber) \o <<".", "j", "s", "o", "n", "?", "b",
       "l", "o", "c", "k", "I", "D", "=">>
    \o Interpolate(blockNumber)

\* --------------------------------------- value returned on success -----
\* `data` is the axios response object; its `data` member is the parsed body

\* line 35
explorerGetAccount_return(data) ==
  OptGet(OptGet(Get(data, "data"), "pageProps"), "accountInfo")

\* line 105
explorerGetTransactions_return(data) == Get(data, "data")

\* line 133
explorerDecodeTransactionActions_return(data) == Get(data, "data")

\* line 192
explorerGetERCTransfersByRoninAddress_return(data) == Get(data, "data")

\* bug variant: the axios response object instead of its body
explorerGetLatestBlocks_return_response(data) == data

\* line 252
explorerGetLatestBlocks_return(data) == Get(data, "data")

\* line 314
explorerGetLatestTransactions_return(data) == Get(data, "data")

\* line 354
explorerGet14DayTransactionVolumes_return(data) ==
  OptGet(Get(data, "data"), "pageProps")

\* line 394
explorerGetERC20Tokens_return(data) ==
  OptGet(OptGet(OptGet(Get(data, "data"), "pageProps"), "tokens"), "results")

\* line 441
explorerGetERC20Transfers_return(data) ==
  OptGet(OptGet(Get(data, "data"), "pageProps"), "transfers")

\* line 492
explorerGetERC721Tokens_return(data) ==
  OptGet(OptGet(OptGet(Get(data, "data"), "pageProps"), "tokens"), "results")

\* bug variant: the path of the token list
explorerGetERC721Transfers_return_tokens(data) ==
  OptGet(OptGet(OptGet(Get(data, "data"), "pageProps"), "tokens"), "results")

\* line 538
explorerGetERC721Transfers_return(data) ==
  OptGet(OptGet(Get(data, "data"), "pageProps"), "transfers")

\* line 575
explorerGetTransactionDetails_return(data) ==
  OptGet(OptGet(Get(data, "data"), "pageProps"), "transaction")

\* line 614
explorerGetBlockDetails_return(data) ==
  OptGet(OptGet(Get(data, "data"), "pageProps"), "block")

\* line 630
exchangeGetRates_return(data) == Get(data, "data")

\* the return statement of the try block of the function a call is running
TryReturn(op, data) ==
  CASE op = "explorerGetAccount" -> explorerGetAccount_return(data)
    [] op = "explorerGetTransactions" -> explorerGetTransactions_return(data)
    [] op = "explorerDecodeTransactionActions" ->
         explorerDecodeTransactionActions_return(data)
    [] op = "explorerGetERCTransfersByRoninAddress" ->
         explorerGetERCTransfersByRoninAddress_return(data)
    [] op = "explorerGetLatestBlocks" -> explorerGetLatestBlocks_return(data)
    [] op = "explorerGetLatestTransactions" ->
         explorerGetLatestTransactions_return(data)
    [] op = "explorerGet14DayTransactionVolumes" ->
         explorerGet14DayTransactionVolumes_return(data)
    [] op = "explorerGetERC20Tokens" -> explorerGetERC20Tokens_return(data)
    [] op = "explorerGetERC20Transfers" ->
         explorerGetERC20Transfers_return(data)
    [] op = "explorerGetERC721Tokens" -> explorerGetERC721Tokens_return(data)
    [] op = "explorerGetERC721Transfers" ->
         explorerGetERC721Transfers_return(data)
    [] op = "explorerGetTransactionDetails" ->
         explorerGetTransactionDetails_return(data)
    [] op = "explorerGetBlockDetails" -> explorerGetBlockDetails_return(data)
    [] op = "exchangeGetRates" -> exchangeGetRates_return(data)

\* bug variant: catch (e) {} swallows the error
CatchReturn_swallow(op, e) == Undefined

\* catch (e) { return e; }, the same block in all fourteen functions
CatchReturn(op, e) == e

\* ------------------------------------------------------- call records ----

\* the fourteen names of module.exports
Operations ==
  {"explorerGetAccount", "explorerGetTransactions",
   "explorerDecodeTransactionActions",
   "explorerGetERCTransfersByRoninAddress", "explorerGetLatestBlocks",
   "explorerGetLatestTransactions", "explorerGet14DayTransactionVolumes",
   "explorerGetERC20Tokens", "explorerGetERC20Transfers",
   "explorerGetERC721Tokens", "explorerGetERC721Transfers",
   "explorerGetTransactionDetails", "explorerGetBlockDetails",
   "exchangeGetRates"}

\* axios.get(url)
AxiosGet(url) == [method |-> "GET", url |-> url, body |-> Undefined]

\* axios.post(url, body)
AxiosPost(url, body) == [method |-> "POST", url |-> url, body |-> body]

NoReply == [kind |-> "none", v |-> Undefined]

\* a slot in which no function has been called yet
IdleCall ==
  [pc |-> "idle", op |-> "none", args |-> <<>>, requests |-> <<>>,
   reply |-> NoReply, state |-> "pending", value |-> Undefined]

\* the function reached `await axios...`: the request is out, the promise
\* the caller holds is pending
Awaiting(op, args, request) ==
  [pc |-> "awaiting", op |-> op, args |-> args, requests |-> <<request>>,
   reply |-> NoReply, state |-> "pending", value |-> Undefined]

\* the function returned before any await: the promise is fulfilled
Returned(op, args, v) ==
  [pc |-> "done", op |-> op, args |-> args, requests |-> <<>>,
   reply |-> NoReply, state |-> "fulfilled", value |-> v]

\* the function threw before any await: the promise is rejected
Threw(op, args, e) ==
  [pc |-> "done", op |-> op, args |-> args, requests |-> <<>>,
   reply |-> NoReply, state |-> "rejected", value |-> e]

\* ------------------------------------------------- exported functions ----
\* Calling a function runs it up to its first await (or to its return or
\* throw when it has none on the path taken); c is the caller's slot.

explorerGetAccount(c, roninAddress) ==
  /\ calls[c].pc # "awaiting"
  /\ LET op    == "explorerGetAccount"
         args  == <<roninAddress>>
         valid == isRoninAddressValid(roninAddress)
     IN  calls' = [calls EXCEPT ![c] =
           IF valid.c = "throw" THEN Threw(op, args, valid.v)
           ELSE IF valid.v.b
           THEN Awaiting(op, args,
                         AxiosGet(explorerGetAccount_url(roninAddress)))
           ELSE Returned(op, args, Str(INVALID_ADDRESS))]
  /\ UNCHANGED harness

explorerGetTransactions(c, roninAddress, fromArg, sizeArg) ==
  /\ calls[c].pc # "awaiting"
  /\ LET op    == "explorerGetTransactions"
         args  == <<roninAddress, fromArg, sizeArg>>
         from  == Default(fromArg, Num(0))
         size  == Default(sizeArg, Num(10))
         valid == isRoninAddressValid(roninAddress)
         modifiedRoninAddress == transformFromRoninAddress(roninAddress)
     IN  calls' = [calls EXCEPT ![c] =
           IF valid.c = "throw" THEN Threw(op, args, valid.v)
           ELSE IF valid.v.b
           THEN IF modifiedRoninAddress.c = "throw"
                THEN Threw(op, args, modifiedRoninAddress.v)
                ELSE Awaiting(op, args, AxiosGet(
                       explorerGetTransactions_url(modifiedRoninAddress.v,
                                                   from, size)))
           ELSE Returned(op, args, Str(INVALID_ADDRESS))]
  /\ UNCHANGED harness

\* bug variant: the transactions posted as the body itself
explorerDecodeTransactionActions_bare(c, transactions) ==
  /\ calls[c].pc # "awaiting"
  /\ calls' = [calls EXCEPT ![c] =
       Awaiting("explorerDecodeTransactionActions", <<transactions>>,
                AxiosPost(DECODER_URL, transactions))]
  /\ UNCHANGED harness

explorerDecodeTransactionActions(c, transactions) ==
  /\ calls[c].pc # "awaiting"
  /\ LET op   == "explorerDecodeTransactionActions"
         args == <<transactions>>
         body == Obj(<< <<"txs", transactions>> >>)
     IN  calls' = [calls EXCEPT ![c] =
           Awaiting(op, args, AxiosPost(DECODER_URL, body))]
  /\ UNCHANGED harness

\* bug variant: the URL template names a variable that does not exist, so
\* evaluating it throws a ReferenceError before the try block
explorerGetERCTransfersByRoninAddress_refError(c, roninAddress, ercSuffixArg, fromArg, sizeArg) ==
  /\ calls[c].pc # "awaiting"
  /\ LET op   == "explorerGetERCTransfersByRoninAddress"
         args == <<roninAddress, ercSuffixArg, fromArg, sizeArg>>
         modifiedRoninAddress == transformFromRoninAddress(roninAddress)
     IN  calls' = [calls EXCEPT ![c] =
           IF modifiedRoninAddress.c = "throw"
           THEN Threw(op, args, modifiedRoninAddress.v)
           ELSE Threw(op, args, Err("ReferenceError"))]
  /\ UNCHANGED harness

\* bug variant: the address check of explorerGetTransactions copied in
explorerGetERCTransfersByRoninAddress_validated(c, roninAddress, ercSuffixArg, fromArg, sizeArg) ==
  /\ calls[c].pc # "awaiting"
  /\ LET op        == "explorerGetERCTransfersByRoninAddress"
         args      == <<roninAddress, ercSuffixArg, fromArg, sizeArg>>
         ercSuffix == Default(ercSuffixArg, Num(20))
         from      == Default(fromArg, Num(0))
         size      == Default(sizeArg, Num(10))
         valid     == isRoninAddressValid(roninAddress)
         modifiedRoninAddress == transformFromRoninAddress(roninAddress)
     IN  calls' = [calls EXCEPT ![c] =
           IF valid.c = "throw" THEN Threw(op, args, valid.v)
           ELSE IF valid.v.b
           THEN Awaiting(op, args, AxiosGet(
                  explorerGetERCTransfersByRoninAddress_url(
                    modifiedRoninAddress.v, ercSuffix, from, size)))
           ELSE Returned(op, args, Str(INVALID_ADDRESS))]
  /\ UNCHANGED harness

explorerGetERCTransfersByRoninAddress(c, roninAddress, ercSuffixArg, fromArg, sizeArg) ==
  /\ calls[c].pc # "awaiting"
  /\ LET op        == "explorerGetERCTransfersByRoninAddress"
         args      == <<roninAddress, ercSuffixArg, fromArg, sizeArg>>
         ercSuffix == Default(ercSuffixArg, Num(20))
         from      == Default(fromArg, Num(0))
         size      == Default(sizeArg, Num(10))
         modifiedRoninAddress == transformFromRoninAddress(roninAddress)
     IN  calls' = [calls EXCEPT ![c] =
           IF modifiedRoninAddress.c = "throw"
           THEN Threw(op, args, modifiedRoninAddress.v)
           ELSE Awaiting(op, args, AxiosGet(
                  explorerGetERCTransfersByRoninAddress_url(
                    modifiedRoninAddress.v, ercSuffix, from, size)))]
  /\ UNCHANGED harness

explorerGetLatestBlocks(c, sizeArg) ==
  /\ calls[c].pc # "awaiting"
  /\ LET size == Default(sizeArg, Num(10))
     IN  calls' = [calls EXCEPT ![c] =
           Awaiting("explorerGetLatestBlocks", <<sizeArg>>,
                    AxiosGet(explorerGetLatestBlocks_url(size)))]
  /\ UNCHANGED harness

explorerGetLatestTransactions(c, sizeArg) ==
  /\ calls[c].pc # "awaiting"
  /\ LET size == Default(sizeArg, Num(10))
     IN  calls' = [calls EXCEPT ![c] =
           Awaiting("explorerGetLatestTransactions", <<sizeArg>>,
                    AxiosGet(explorerGetLatestTransactions_url(size)))]
  /\ UNCHANGED harness

explorerGet14DayTransactionVolumes(c) ==
  /\ calls[c].pc # "awaiting"
  /\ calls' = [calls EXCEPT ![c] =
       Awaiting("explorerGet14DayTransactionVolumes", <<>>,
                AxiosGet(explorerGet14DayTransactionVolumes_url))]
  /\ UNCHANGED harness

explorerGetERC20Tokens(c) ==
  /\ calls[c].pc # "awaiting"
  /\ calls' = [calls EXCEPT ![c] =
       Awaiting("explorerGetERC20Tokens", <<>>,
                AxiosGet(explorerGetERC20Tokens_url))]
  /\ UNCHANGED harness

explorerGetERC20Transfers(c) ==
  /\ calls[c].pc # "awaiting"
  /\ calls' = [calls EXCEPT ![c] =
       Awaiting("explorerGetERC20Transfers", <<>>,
                AxiosGet(explorerGetERC20Transfers_url))]
  /\ UNCHANGED harness

explorerGetERC721Tokens(c) ==
  /\ calls[c].pc # "awaiting"
  /\ calls' = [calls EXCEPT ![c] =
       Awaiting("explorerGetERC721Tokens", <<>>,
                AxiosGet(explorerGetERC721Tokens_url))]
  /\ UNCHANGED harness

explorerGetERC721Transfers(c) ==
  /\ calls[c].pc # "awaiting"
  /\ calls' = [calls EXCEPT ![c] =
       Awaiting("explorerGetERC721Transfers", <<>>,
                AxiosGet(explorerGetERC721Transfers_url))]
  /\ UNCHANGED harness

explorerGetTransactionDetails(c, txHash) ==
  /\ calls[c].pc # "awaiting"
  /\ calls' = [calls EXCEPT ![c] =
       Awaiting("explorerGetTransactionDetails", <<txHash>>,
                AxiosGet(explorerGetTransactionDetails_url(txHash)))]
  /\ UNCHANGED harness

explorerGetBlockDetails(c, blockNumber) ==
  /\ calls[c].pc # "awaiting"
  /\ calls' = [calls EXCEPT ![c] =
       Awaiting("explorerGetBlockDetails", <<blockNumber>>,
                AxiosGet(explorerGetBlockDetails_url(blockNumber)))]
  /\ UNCHANGED harness

\* bug variant: the rates are cached at module level; once a response for
\* them has arrived, later calls return it without a request
exchangeGetRates_cached(c) ==
  /\ calls[c].pc # "awaiting"
  /\ LET cached == {d \in DOMAIN calls :
                      /\ calls[d].op = "exchangeGetRates"
                      /\ calls[d].reply.kind = "response"}
     IN  calls' = [calls EXCEPT ![c] =
           IF cached # {}
           THEN Returned("exchangeGetRates", <<>>,
                         calls[CHOOSE d \in cached : TRUE].value)
           ELSE Awaiting("exchangeGetRates", <<>>, AxiosGet(EXCHANGE_URL))]
  /\ UNCHANGED harness

exchangeGetRates(c) ==
  /\ calls[c].pc # "awaiting"
  /\ calls' = [calls EXCEPT ![c] =
       Awaiting("exchangeGetRates", <<>>, AxiosGet(EXCHANGE_URL))]
  /\ UNCHANGED harness

\* ------------------------------------------- resumption after await -----

\* the axios response object for a parsed body
Response(body) == Obj(<< <<"data", body>>, <<"status", Num(200)>> >>)

\* bug variant: the operation is remembered in one module-level variable
\* that the latest call overwrites, so the try block of an earlier call
\* returns what the latest call in flight would return
AxiosResolve_shared(c, body) ==
  /\ calls[c].pc = "awaiting"
  /\ LET inFlight == {d \in DOMAIN calls : calls[d].pc = "awaiting"}
         latest   == CHOOSE d \in inFlight : \A x \in inFlight : x <= d
     IN  calls' = [calls EXCEPT
           ![c].pc = "done",
           ![c].reply = [kind |-> "response", v |-> body],
           ![c].state = "fulfilled",
           ![c].value = TryReturn(calls[latest].op, Response(body))]
  /\ UNCHANGED harness

\* the awaited request succeeded: the try block returns
AxiosResolve(c, body) ==
  /\ calls[c].pc = "awaiting"
  /\ calls' = [calls EXCEPT
       ![c].pc = "done",
       ![c].reply = [kind |-> "response", v |-> body],
       ![c].state = "fulfilled",
       ![c].value = TryReturn(calls[c].op, Response(body))]
  /\ UNCHANGED harness

\* bug variant: the catch block retries the request once before it
\* returns the error
AxiosReject_retry(c, e) ==
  /\ calls[c].pc = "awaiting"
  /\ calls' = [calls EXCEPT ![c] =
       IF Len(calls[c].requests) < 2
       THEN [calls[c] EXCEPT
               !.requests = Append(calls[c].requests, calls[c].requests[1]),
               !.reply = [kind |-> "failure", v |-> e]]
       ELSE [calls[c] EXCEPT
               !.pc = "done",
               !.reply = [kind |-> "failure", v |-> e],
               !.state = "fulfilled",
               !.value = e]]
  /\ UNCHANGED harness

\* bug variant: the catch block rethrows
AxiosReject_rethrow(c, e) ==
  /\ calls[c].pc = "awaiting"
  /\ calls' = [calls EXCEPT
       ![c].pc = "done",
       ![c].reply = [kind |-> "failure", v |-> e],
       ![c].state = "rejected",
       ![c].value = e]
  /\ UNCHANGED harness

\* the awaited request failed (network error, non-2xx status, unparsable
\* body): axios throws e inside the try block and the catch block returns
AxiosReject(c, e) ==
  /\ calls[c].pc = "awaiting"
  /\ calls' = [calls EXCEPT
       ![c].pc = "done",
       ![c].reply = [kind |-> "failure", v |-> e],
       ![c].state = "fulfilled",
       ![c].value = CatchReturn(calls[c].op, e)]
  /\ UNCHANGED harness

\* ------------------------------------------------------------- inputs ----

Fill(ch, n) == [i \in 1..n |-> ch]

Take(s, n) == SubSeq(s, 1, n)

\* how the argument strings begin
Prefixes ==
  {<<>>, RONIN, RONIN_COLON, RONIN_COLON \o RONIN_COLON,
   RONIN \o RONIN_COLON, HEX_PREFIX, <<"x">> \o RONIN_COLON,
   <<"R", "o", "n", "i", "n", ":">>, <<"r", "o", "n", "i", ":">>}

FillChars == {"3", "a"}

\* every prefix, padded or cut to every length up to MaxLen
TestStrings ==
  {Take(p \o Fill(ch, MaxLen), n) :
     p \in Prefixes, ch \in FillChars, n \in 0..MaxLen}

\* arguments of the address functions: strings and non-strings
PureInputs ==
  {Str(s) : s \in TestStrings} \cup {Undefined, Null, Num(ADDRESS_LENGTH)}

\* addresses passed to the exported functions
CallAddresses ==
  {Str(Take(p \o Fill("3", MaxLen), n)) :
     p \in {RONIN, RONIN_COLON, RONIN_COLON \o RONIN_COLON, HEX_PREFIX},
     n \in {0, 3, ADDRESS_LENGTH - 1, ADDRESS_LENGTH, MaxLen}}
  \cup {Undefined}

\* (from, size) argument pairs; Undefined is an omitted argument
Pagings ==
  {<<Undefined, Undefined>>, <<Num(MaxNum), Undefined>>,
   <<Num(0), Num(MaxNum)>>}

Sizes == {Undefined, Num(1), Num(MaxNum)}

\* (ercSuffix, from, size) argument triples
ErcArgs ==
  {<<Undefined, Undefined, Undefined>>, <<Num(20), Undefined, Num(1)>>,
   <<Num(1155), Undefined, Undefined>>,
   <<Num(721), Num(MaxNum), Undefined>>,
   <<Str(<<"2", "0">>), Num(0), Num(MaxNum)>>}

TxHashes == {Str(HEX_PREFIX \o Fill("b", 4)), Str(<<>>), Undefined}

BlockNumbers == {Num(0), Num(MaxNum), Str(<<"7">>), Undefined}

Transaction ==
  Obj(<< <<"contractAddress", Str(HEX_PREFIX \o Fill("c", 2))>>,
         <<"callData", Str(HEX_PREFIX \o Fill("d", 2))>>,
         <<"logs", Arr(<<>>)>> >>)

TransactionLists ==
  {Arr(<<Transaction>>), Arr(<<Transaction, Transaction>>), Arr(<<>>),
   Undefined, Str(<<"t", "x">>)}

\* a page-data body with a distinct value at every extraction path
PageBody ==
  Obj(<< <<"pageProps", Obj(<<
           <<"accountInfo", Obj(<< <<"balance", Str(<<"0">>)>> >>)>>,
           <<"tokens", Obj(<< <<"results", Arr(<<Str(<<"W">>)>>)>>,
                              <<"total", Num(1)>> >>)>>,
           <<"transfers", Arr(<<Num(2)>>)>>,
           <<"transaction", Obj(<< <<"status", Num(1)>> >>)>>,
           <<"block", Obj(<< <<"number", Num(3)>> >>)>> >>)>>,
         <<"__N_SSP", Bool(TRUE)>> >>)

\* a REST body
RestBody == Obj(<< <<"total", Num(5)>>, <<"results", Arr(<<Num(4)>>)>> >>)

\* parsed bodies a successful response can carry
Bodies ==
  {PageBody, RestBody,
   Obj(<<>>),
   Obj(<< <<"pageProps", Obj(<<>>)>> >>),
   Obj(<< <<"pageProps", Null>> >>),
   Obj(<< <<"pageProps", Str(<<"p">>)>> >>),
   Obj(<< <<"pageProps", Obj(<< <<"tokens", Obj(<<>>)>> >>)>> >>),
   Obj(<< <<"pageProps", Obj(<< <<"tokens", Null>> >>)>> >>),
   Obj(<< <<"accountInfo", Num(7)>>, <<"tokens", Num(8)>>,
          <<"results", Num(9)>>, <<"transfers", Num(10)>>,
          <<"transaction", Num(11)>>, <<"block", Num(12)>> >>),
   Obj(<< <<"data", PageBody>> >>),
   Obj(<< <<"pageProps", Obj(<< <<"accountInfo", Str(INVALID_ADDRESS)>> >>)>> >>),
   Null, Undefined, Str(<<>>), Str(INVALID_ADDRESS), Num(0), Arr(<<>>)}

\* values axios throws
Failures ==
  {Err("connect ECONNREFUSED"), Err("Request failed with status code 404"),
   Err("Unexpected token < in JSON")}

\* ------------------------------------------------------ specifications ----

\* the caller's slots: one caller
Callers == {1}

NoHarness ==
  [fn |-> "none", arg |-> Undefined, prev |-> Normal(Undefined),
   ret |-> Normal(Undefined)]

\* one caller that calls the exported functions one call after another
Init ==
  /\ calls = [c \in Callers |-> IdleCall]
  /\ harness = NoHarness

Next ==
  \/ \E c \in DOMAIN calls, a \in CallAddresses : explorerGetAccount(c, a)
  \/ \E c \in DOMAIN calls, a \in CallAddresses, p \in Pagings :
       explorerGetTransactions(c, a, p[1], p[2])
  \/ \E c \in DOMAIN calls, txs \in TransactionLists :
       explorerDecodeTransactionActions(c, txs)
  \/ \E c \in DOMAIN calls, a \in CallAddresses, p \in ErcArgs :
       explorerGetERCTransfersByRoninAddress(c, a, p[1], p[2], p[3])
  \/ \E c \in DOMAIN calls, size \in Sizes : explorerGetLatestBlocks(c, size)
  \/ \E c \in DOMAIN calls, size \in Sizes :
       explorerGetLatestTransactions(c, size)
  \/ \E c \in DOMAIN calls : explorerGet14DayTransactionVolumes(c)
  \/ \E c \in DOMAIN calls : explorerGetERC20Tokens(c)
  \/ \E c \in DOMAIN calls : explorerGetERC20Transfers(c)
  \/ \E c \in DOMAIN calls : explorerGetERC721Tokens(c)
  \/ \E c \in DOMAIN calls : explorerGetERC721Transfers(c)
  \/ \E c \in DOMAIN calls, txHash \in TxHashes :
       explorerGetTransactionDetails(c, txHash)
  \/ \E c \in DOMAIN calls, n \in BlockNumbers :
       explorerGetBlockDetails(c, n)
  \/ \E c \in DOMAIN calls : exchangeGetRates(c)
  \/ \E c \in DOMAIN calls, body \in Bodies : AxiosResolve(c, body)
  \/ \E c \in DOMAIN calls, e \in Failures : AxiosReject(c, e)

Spec == Init /\ [][Next]_vars

\* the two address functions applied to one argument
ApplyIsRoninAddressValid ==
  /\ harness.fn = "none"
  /\ harness' = [harness EXCEPT !.fn = "isRoninAddressValid",
                                !.ret = isRoninAddressValid(harness.arg)]
  /\ UNCHANGED calls

ApplyTransformFromRoninAddress ==
  /\ harness.fn = "none"
  /\ harness' = [harness EXCEPT !.fn = "transformFromRoninAddress",
                                !.ret = transformFromRoninAddress(harness.arg)]
  /\ UNCHANGED calls

InitPure ==
  /\ calls = [c \in Callers |-> IdleCall]
  /\ harness \in {[NoHarness EXCEPT !.arg = a] : a \in PureInputs}

\* transformFromRoninAddress applied to its own result; prev keeps the
\* result of the first application
ApplyTransformAgain ==
  /\ harness.fn = "transformFromRoninAddress"
  /\ harness.ret.c = "normal"
  /\ harness' = [harness EXCEPT !.fn = "transformFromRoninAddress twice",
                                !.prev = harness.ret,
                                !.ret = transformFromRoninAddress(harness.ret.v)]
  /\ UNCHANGED calls

NextPure ==
  \/ ApplyIsRoninAddressValid
  \/ ApplyTransformFromRoninAddress
  \/ ApplyTransformAgain

SpecPure == InitPure /\ [][NextPure]_vars

\* ----------------------------------------------- vocabulary of claims ----

\* s begins with the five characters r, o, n, i, n
BeginsWithRonin(s) ==
  /\ Len(s) >= 5
  /\ s[1] = "r" /\ s[2] = "o" /\ s[3] = "n" /\ s[4] = "i" /\ s[5] = "n"

\* the condition the specification gives for a valid address
SpecValid(v) == v.t = "string" /\ BeginsWithRonin(v.s) /\ Len(v.s) = 46

\* number of positions at which `part` occurs in `whole`
Occurrences(whole, part) ==
  Cardinality({i \in 1..(Len(whole) - Len(part) + 1) :
                 \A k \in 1..Len(part) : whole[i + k - 1] = part[k]})

\* v is an object that has a member named key
HasMember(v, key) ==
  v.t = "object" /\ \E m \in {v.o[i] : i \in 1..Len(v.o)} : m[1] = key

\* the member of v named key
MemberOf(v, key) ==
  LET m == CHOOSE m \in {v.o[i] : i \in 1..Len(v.o)} : m[1] = key IN m[2]

RECURSIVE HasPath(_, _)
\* every key of the path is present, each in the value of the one before
HasPath(v, path) ==
  \/ path = <<>>
  \/ /\ HasMember(v, Head(path))
     /\ HasPath(MemberOf(v, Head(path)), Tail(path))

RECURSIVE AtPath(_, _)
\* the value at the path, undefined where a key is missing
AtPath(v, path) ==
  IF path = <<>> THEN v
  ELSE IF HasMember(v, Head(path))
       THEN AtPath(MemberOf(v, Head(path)), Tail(path))
       ELSE Undefined

\* the extraction paths of the operation catalog, <<>> for a raw body
CatalogPath(op) ==
  CASE op = "explorerGetAccount" -> <<"pageProps", "accountInfo">>
    [] op = "explorerGet14DayTransactionVolumes" -> <<"pageProps">>
    [] op \in {"explorerGetERC20Tokens", "explorerGetERC721Tokens"} ->
         <<"pageProps", "tokens", "results">>
    [] op \in {"explorerGetERC20Transfers", "explorerGetERC721Transfers"} ->
         <<"pageProps", "transfers">>
    [] op = "explorerGetTransactionDetails" -> <<"pageProps", "transaction">>
    [] op = "explorerGetBlockDetails" -> <<"pageProps", "block">>
    [] OTHER -> <<>>

AddressValidated == {"explorerGetAccount", "explorerGetTransactions"}

\* calls that have been made (running or completed)
Made == {c \in DOMAIN calls : calls[c].pc # "idle"}

\* calls whose request got a successful response / a failure
Succeeded == {c \in Made : calls[c].reply.kind = "response"}

Failed == {c \in Made : calls[c].reply.kind = "failure"}

\* ------------------------------------------------------------- claims ----

\* C1: isRoninAddressValid returns true for every string that begins with
\* `ronin` and is exactly 46 characters long, and false for every other
\* string.
C1_ValidatorIsPrefixAndLength ==
  (harness.fn = "isRoninAddressValid" /\ harness.arg.t = "string") =>
    harness.ret = Normal(Bool(BeginsWithRonin(harness.arg.s)
                              /\ Len(harness.arg.s) = 46))

\* the validator accepted a 46-character string that begins with `ronin`
\* and has no colon after it
C1_Witness ==
  /\ harness.fn = "isRoninAddressValid"
  /\ harness.arg.t = "string"
  /\ Len(harness.arg.s) = 46
  /\ harness.arg.s[6] # ":"
  /\ harness.ret = Normal(Bool(TRUE))

\* C2: for a string address that the validator rejects, explorerGetAccount
\* and explorerGetTransactions resolve to exactly "Invalid address" and
\* issue no HTTP request at any point of the call.
C2_InvalidAddressSentinel ==
  \A c \in Made :
    (/\ calls[c].op \in AddressValidated
     /\ calls[c].args[1].t = "string"
     /\ ~SpecValid(calls[c].args[1])) =>
      /\ calls[c].pc = "done"
      /\ calls[c].state = "fulfilled"
      /\ calls[c].value = Str(<<"I", "n", "v", "a", "l", "i", "d", " ",
                                "a", "d", "d", "r", "e", "s", "s">>)
      /\ calls[c].requests = <<>>

\* explorerGetTransactions was called with a 45-character `ronin:` address
\* and paging arguments, and returned the sentinel without a request
C2_Witness ==
  \E c \in Made :
    /\ calls[c].op = "explorerGetTransactions"
    /\ calls[c].args[1].t = "string"
    /\ Len(calls[c].args[1].s) = 45
    /\ startsWith(calls[c].args[1].s, RONIN_COLON)
    /\ calls[c].args[2] # Undefined
    /\ calls[c].value = Str(INVALID_ADDRESS)
    /\ calls[c].requests = <<>>

C4_TransformOfValidIsHex ==
  (harness.fn = "transformFromRoninAddress" /\ SpecValid(harness.arg)) =>
    harness.ret = Normal(Str(<<"0", "x">> \o SubSeq(harness.arg.s, 7, 46)))

\* C5: for a valid address a, explorerGetAccount issues one GET whose URL
\* contains the prefixed a twice, in the path and as the `address` query
\* value, and on success resolves to pageProps.accountInfo of the body.
C5_GetAccount ==
  \A c \in Made :
    (calls[c].op = "explorerGetAccount" /\ SpecValid(calls[c].args[1])) =>
      LET a == calls[c].args[1].s IN
      /\ Len(calls[c].requests) = 1
      /\ calls[c].requests[1].method = "GET"
      /\ Occurrences(calls[c].requests[1].url, a) = 2
      /\ Occurrences(calls[c].requests[1].url, <<"/">> \o a \o <<".">>) = 1
      /\ Occurrences(calls[c].requests[1].url,
                     <<"?", "a", "d", "d", "r", "e", "s", "s", "=">> \o a) = 1
      /\ c \in Succeeded =>
           /\ calls[c].state = "fulfilled"
           /\ calls[c].value =
                AtPath(calls[c].reply.v, <<"pageProps", "accountInfo">>)

\* explorerGetAccount of a valid `ronin:` address returned the account
\* object of the response
C5_Witness ==
  \E c \in Succeeded :
    /\ calls[c].op = "explorerGetAccount"
    /\ startsWith(calls[c].args[1].s, RONIN_COLON)
    /\ calls[c].value = Obj(<< <<"balance", Str(<<"0">>)>> >>)

\* C6: explorerDecodeTransactionActions validates nothing: for every
\* argument it issues one POST to the decoder endpoint with the body
\* { txs: <the argument> }, and on success resolves to the raw body.
C6_DecodePostsTxs ==
  \A c \in Made :
    calls[c].op = "explorerDecodeTransactionActions" =>
      /\ Len(calls[c].requests) = 1
      /\ calls[c].requests[1].method = "POST"
      /\ calls[c].requests[1].url = DECODER_URL
      /\ calls[c].requests[1].body.t = "object"
      /\ calls[c].requests[1].body.o = << <<"txs", calls[c].args[1]>> >>
      /\ c \in Succeeded =>
           /\ calls[c].state = "fulfilled"
           /\ calls[c].value = calls[c].reply.v

\* a list of two transactions was posted and the decoder's body came back
C6_Witness ==
  \E c \in Succeeded :
    /\ calls[c].op = "explorerDecodeTransactionActions"
    /\ calls[c].args[1] = Arr(<<Transaction, Transaction>>)
    /\ calls[c].requests[1].body =
         Obj(<< <<"txs", Arr(<<Transaction, Transaction>>)>> >>)
    /\ calls[c].value = RestBody

\* C7: every call that does not end in "Invalid address" issues exactly one
\* HTTP request over its lifetime, a POST for
\* explorerDecodeTransactionActions and a GET for every other operation.
C7_ExactlyOneRequest ==
  \A c \in Made :
    (calls[c].pc = "done"
       => ~(calls[c].state = "fulfilled"
            /\ calls[c].value = Str(INVALID_ADDRESS))) =>
      /\ Len(calls[c].requests) = 1
      /\ calls[c].requests[1].method =
           IF calls[c].op = "explorerDecodeTransactionActions"
           THEN "POST" ELSE "GET"

\* C8: on success the page-data operations resolve to their fixed sub-path
\* of the body: pageProps for the 14-day volumes, pageProps.tokens.results
\* for the two token lists, pageProps.transfers for the two transfer lists,
\* pageProps.transaction and pageProps.block for the two detail operations.
C8_PageDataExtraction ==
  \A c \in Succeeded :
    calls[c].op \in {"explorerGet14DayTransactionVolumes",
                     "explorerGetERC20Tokens", "explorerGetERC721Tokens",
                     "explorerGetERC20Transfers",
                     "explorerGetERC721Transfers",
                     "explorerGetTransactionDetails",
                     "explorerGetBlockDetails"} =>
      /\ calls[c].state = "fulfilled"
      /\ calls[c].value = AtPath(calls[c].reply.v, CatalogPath(calls[c].op))

\* explorerGetERC721Transfers returned the transfer list of a page body
C8_Witness ==
  \E c \in Succeeded :
    /\ calls[c].op = "explorerGetERC721Transfers"
    /\ calls[c].reply.v = PageBody
    /\ calls[c].value = Arr(<<Num(2)>>)

\* C9: on success explorerGetTransactions,
\* explorerGetERCTransfersByRoninAddress, explorerGetLatestBlocks,
\* explorerGetLatestTransactions and exchangeGetRates resolve to the whole
\* parsed body, unchanged.
C9_RawBody ==
  \A c \in Succeeded :
    calls[c].op \in {"explorerGetTransactions",
                     "explorerGetERCTransfersByRoninAddress",
                     "explorerGetLatestBlocks",
                     "explorerGetLatestTransactions", "exchangeGetRates"} =>
      /\ calls[c].state = "fulfilled"
      /\ calls[c].value = calls[c].reply.v

\* explorerGetLatestBlocks returned a body that has a pageProps member whole
C9_Witness ==
  \E c \in Succeeded :
    /\ calls[c].op = "explorerGetLatestBlocks"
    /\ HasMember(calls[c].reply.v, "pageProps")
    /\ calls[c].value = PageBody

\* C10: when the request succeeds but the body lacks a key of the
\* operation's extraction path, or the body is null or absent, the promise
\* is fulfilled with an absent value (undefined; the null body itself where
\* no path is extracted), never rejected and never an error value.
C10_MissingPathIsUndefined ==
  \A c \in Succeeded :
    LET body == calls[c].reply.v
        path == CatalogPath(calls[c].op)
    IN  (~HasPath(body, path) \/ body.t \in {"null", "undefined"}) =>
          /\ calls[c].state = "fulfilled"
          /\ calls[c].value.t \in {"undefined", "null"}
          /\ path # <<>> => calls[c].value = Undefined

\* explorerGetERC20Tokens got a body whose pageProps.tokens is null and
\* returned undefined
C10_Witness ==
  \E c \in Succeeded :
    /\ calls[c].op = "explorerGetERC20Tokens"
    /\ calls[c].reply.v = Obj(<< <<"pageProps", Obj(<< <<"tokens", Null>> >>)>> >>)
    /\ calls[c].value = Undefined

\* C11: only explorerGetAccount and explorerGetTransactions validate the
\* address: explorerGetERCTransfersByRoninAddress,
\* explorerGetTransactionDetails and explorerGetBlockDetails issue their
\* request for every string argument, also one the validator rejects, and
\* never resolve to "Invalid address" without a request.
C11_NoValidationElsewhere ==
  \A c \in Made :
    (/\ calls[c].op \in {"explorerGetERCTransfersByRoninAddress",
                         "explorerGetTransactionDetails",
                         "explorerGetBlockDetails"}
     /\ calls[c].args[1].t = "string") =>
      /\ Len(calls[c].requests) = 1
      /\ calls[c].requests[1].method = "GET"
      /\ calls[c].pc = "done" => calls[c].reply.kind # "none"

\* explorerGetERCTransfersByRoninAddress was called with a three-character
\* address and its request is out
C11_Witness ==
  \E c \in Made :
    /\ calls[c].op = "explorerGetERCTransfersByRoninAddress"
    /\ calls[c].args[1].t = "string"
    /\ Len(calls[c].args[1].s) = 3
    /\ calls[c].pc = "awaiting"
    /\ Len(calls[c].requests) = 1

\* C12: every completed call ends in exactly one of four outcomes: the
\* extracted sub-path of the body, the raw body, the string
\* "Invalid address" (explorerGetAccount and explorerGetTransactions only),
\* or the caught error value; no call completes in any other way.
C12_FourOutcomes ==
  \A c \in Made :
    calls[c].pc = "done" =>
      /\ calls[c].state = "fulfilled"
      /\ \/ /\ c \in Succeeded
            /\ calls[c].value =
                 AtPath(calls[c].reply.v, CatalogPath(calls[c].op))
         \/ /\ c \in Failed
            /\ calls[c].value = calls[c].reply.v
         \/ /\ calls[c].reply.kind = "none"
            /\ calls[c].op \in AddressValidated
            /\ calls[c].value = Str(INVALID_ADDRESS)

\* ------------------------------------------------ concurrent callers ----

\* number of calls that can be in flight at once
NumCalls == 2

ConcAddresses ==
  {Str(Take(RONIN_COLON \o Fill("3", MaxLen), ADDRESS_LENGTH)), Str(RONIN)}

ConcBodies == {PageBody, RestBody}

ConcFailures == {Err("connect ECONNREFUSED")}

\* NumCalls callers; each may call while the others' requests are in flight,
\* and the replies arrive in any order
InitConc ==
  /\ calls = [c \in 1..NumCalls |-> IdleCall]
  /\ harness = NoHarness

NextConc ==
  \/ \E c \in DOMAIN calls, a \in ConcAddresses : explorerGetAccount(c, a)
  \/ \E c \in DOMAIN calls, a \in ConcAddresses :
       explorerGetTransactions(c, a, Undefined, Num(MaxNum))
  \/ \E c \in DOMAIN calls : explorerGetLatestBlocks(c, Undefined)
  \/ \E c \in DOMAIN calls : exchangeGetRates(c)
  \/ \E c \in DOMAIN calls, body \in ConcBodies : AxiosResolve(c, body)
  \/ \E c \in DOMAIN calls, e \in ConcFailures : AxiosReject(c, e)

SpecConc == InitConc /\ [][NextConc]_vars

\* C13: calls share no mutable state: under every interleaving of the
\* concurrent calls' requests and replies, a call's request and result are
\* determined by its own arguments and its own reply alone, so two calls
\* with the same arguments and reply are in the same state whatever the
\* other callers did in between.
C13_CallsAreIndependent ==
  \A c1, c2 \in Made :
    (/\ calls[c1].op = calls[c2].op
     /\ calls[c1].args = calls[c2].args
     /\ calls[c1].reply = calls[c2].reply) =>
      /\ calls[c1].pc = calls[c2].pc
      /\ calls[c1].state = calls[c2].state
      /\ calls[c1].value = calls[c2].value

\* one explorerGetAccount call has returned the account object while another
\* caller's request is still in flight
C13_Witness ==
  \E c1, c2 \in Made :
    /\ c1 # c2
    /\ calls[c1].op = "explorerGetAccount"
    /\ calls[c1].pc = "done"
    /\ calls[c1].value = Obj(<< <<"balance", Str(<<"0">>)>> >>)
    /\ calls[c2].pc = "awaiting"
    /\ calls[c2].op # calls[c1].op

\* the handler of `f(...).then((res) => ...).catch((e) => ...)` that runs
\* for a call, and the value it receives
Handler(c) ==
  CASE calls[c].state = "fulfilled" ->
         [handler |-> "then", arg |-> calls[c].value]
    [] calls[c].state = "rejected" ->
         [handler |-> "catch", arg |-> calls[c].value]
    [] OTHER -> [handler |-> "none", arg |-> Undefined]

Decimal(n) ==
  LET d(k) == <<"0", "1", "2", "3", "4", "5", "6", "7", "8", "9">>[k + 1]
  IN  IF n < 10 THEN <<d(n)>>
      ELSE IF n < 100 THEN <<d(n \div 10), d(n % 10)>>
      ELSE IF n < 1000 THEN <<d(n \div 100), d((n \div 10) % 10), d(n % 10)>>
      ELSE <<d(n \div 1000), d((n \div 100) % 10), d((n \div 10) % 10),
             d(n % 10)>>

\* how an argument shows in a query: the default's numeral when it is
\* omitted, its numeral when it is a number, itself when it is a string
Shown(v, default) ==
  CASE v.t = "undefined" -> Decimal(default)
    [] v.t = "number" -> Decimal(v.n)
    [] v.t = "string" -> v.s

\* C15: for a valid address a, explorerGetTransactions(a, from, size)
\* issues a GET with transformFromRoninAddress(a) in the URL path and from
\* and size as query values, 0 and 10 when omitted; the prefixed form of a
\* never appears in the URL.
C15_GetTransactionsUrl ==
  \A c \in Made :
    (calls[c].op = "explorerGetTransactions"
       /\ SpecValid(calls[c].args[1])) =>
      LET a == calls[c].args[1] IN
      /\ Len(calls[c].requests) = 1
      /\ calls[c].requests[1].method = "GET"
      /\ calls[c].requests[1].url =
           EXPLORER_HOST \o <<"/", "a", "p", "i", "/", "t", "x", "s", "/">>
             \o transformFromRoninAddress(a).v.s
             \o <<"?", "f", "r", "o", "m", "=">> \o Shown(calls[c].args[2], 0)
             \o <<"&", "s", "i", "z", "e", "=">> \o Shown(calls[c].args[3], 10)
      /\ Occurrences(calls[c].requests[1].url, a.s) = 0

\* C16: explorerGetERCTransfersByRoninAddress(a, ercSuffix, from, size)
\* builds its URL from its own parameters only: addr is
\* transformFromRoninAddress(a), from and size are passed through, token is
\* `ERC` followed by ercSuffix, with the defaults 20, 0 and 10; no
\* undefined variable is referenced, and ercSuffix may be any value.
C16_ErcTransfersUrl ==
  \A c \in Made :
    (calls[c].op = "explorerGetERCTransfersByRoninAddress"
       /\ calls[c].args[1].t = "string") =>
      /\ calls[c].state # "rejected"
      /\ Len(calls[c].requests) = 1
      /\ calls[c].requests[1].url =
           EXPLORER_HOST
             \o <<"/", "a", "p", "i", "/", "t", "o", "k", "e", "n", "t", "x",
                  "s", "?", "a", "d", "d", "r", "=">>
             \o transformFromRoninAddress(calls[c].args[1]).v.s
             \o <<"&", "f", "r", "o", "m", "=">> \o Shown(calls[c].args[3], 0)
             \o <<"&", "s", "i", "z", "e", "=">> \o Shown(calls[c].args[4], 10)
             \o <<"&", "t", "o", "k", "e", "n", "=", "E", "R", "C">>
             \o Shown(calls[c].args[2], 20)

\* a call with ercSuffix 1155 and a `ronin:` address asked for token=ERC1155
\* of the hex address
C16_Witness ==
  \E c \in Made :
    /\ calls[c].op = "explorerGetERCTransfersByRoninAddress"
    /\ calls[c].args[1].t = "string"
    /\ startsWith(calls[c].args[1].s, RONIN_COLON)
    /\ calls[c].args[2] = Num(1155)
    /\ Len(calls[c].requests) = 1
    /\ Occurrences(calls[c].requests[1].url,
                   <<"=", "0", "x", "3">>) = 1
    /\ Occurrences(calls[c].requests[1].url,
                   <<"E", "R", "C", "1", "1", "5", "5">>) = 1

\* C17 as stated: for every address the validator accepts, a second
\* application of transformFromRoninAddress is a no-op.
C17_TransformIdempotent ==
  (harness.fn = "transformFromRoninAddress twice" /\ SpecValid(harness.arg))
    => harness.ret = harness.prev

\* C17 as amended: for every address the validator accepts in which
\* `ronin:` occurs at most once, a second application is a no-op.
C17_TransformIdempotentOnce ==
  (/\ harness.fn = "transformFromRoninAddress twice"
   /\ SpecValid(harness.arg)
   /\ Occurrences(harness.arg.s, <<"r", "o", "n", "i", "n", ":">>) <= 1)
    => harness.ret = harness.prev

\* a `ronin:` address was transformed to its hex form and the second
\* application left that form alone
C17_Witness ==
  /\ harness.fn = "transformFromRoninAddress twice"
  /\ SpecValid(harness.arg)
  /\ Occurrences(harness.arg.s, <<"r", "o", "n", "i", "n", ":">>) = 1
  /\ harness.prev.v.s # harness.arg.s
  /\ harness.prev.v.s[1] = "0"
  /\ harness.ret = harness.prev

\* C18: the promise of every exported operation is fulfilled and never
\* rejected, for every argument value, an omitted or non-string address
\* included: no error of the validator or the transformer escapes.
C18_NeverRejects ==
  \A c \in Made :
    /\ calls[c].state # "rejected"
    /\ calls[c].pc = "done" => calls[c].state = "fulfilled"

\* C19 as stated: whenever explorerGetAccount or explorerGetTransactions
\* resolves to "Invalid address", the address was rejected by the validator
\* and the call issued no request, whatever bodies the service returns.
C19_SentinelUnambiguous ==
  \A c \in Made :
    (/\ calls[c].op \in AddressValidated
     /\ calls[c].state = "fulfilled"
     /\ calls[c].value = Str(INVALID_ADDRESS)) =>
      /\ ~SpecValid(calls[c].args[1])
      /\ calls[c].requests = <<>>

\* C19 as amended: whenever explorerGetAccount or explorerGetTransactions
\* resolves to "Invalid address", either the address was rejected by the
\* validator and the call issued no request, or the address was accepted,
\* the call issued its one request and that request produced the string:
\* as the value the operation extracts from the body, or as the thrown
\* value.
C19_SentinelOrReply ==
  \A c \in Made :
    (/\ calls[c].op \in AddressValidated
     /\ calls[c].state = "fulfilled"
     /\ calls[c].value = Str(INVALID_ADDRESS)) =>
      \/ /\ ~SpecValid(calls[c].args[1])
         /\ calls[c].requests = <<>>
      \/ /\ SpecValid(calls[c].args[1])
         /\ Len(calls[c].requests) = 1
         /\ \/ /\ c \in Succeeded
               /\ AtPath(calls[c].reply.v, CatalogPath(calls[c].op))
                    = Str(INVALID_ADDRESS)
            \/ /\ c \in Failed
               /\ calls[c].reply.v = Str(INVALID_ADDRESS)

\* explorerGetAccount of a valid address issued its request and resolved to
\* "Invalid address", found at pageProps.accountInfo of the body
C19_Witness ==
  \E c \in Succeeded :
    /\ calls[c].op = "explorerGetAccount"
    /\ SpecValid(calls[c].args[1])
    /\ Len(calls[c].requests) = 1
    /\ calls[c].reply.v # Str(INVALID_ADDRESS)
    /\ calls[c].value = Str(INVALID_ADDRESS)

\* C20: requests are determined by the arguments: two calls of the same
\* operation with equal arguments issue requests with the same method, URL
\* and body, whatever calls were made before and whatever they returned; a
\* parameterless operation always requests the same URL.
C20_RequestsDeterministic ==
  \A c1, c2 \in Made :
    (calls[c1].op = calls[c2].op /\ calls[c1].args = calls[c2].args) =>
      /\ Len(calls[c1].requests) = Len(calls[c2].requests)
      /\ \A i \in 1..Len(calls[c1].requests) :
           /\ calls[c1].requests[i].method = calls[c2].requests[i].method
           /\ calls[c1].requests[i].url = calls[c2].requests[i].url
           /\ calls[c1].requests[i].body = calls[c2].requests[i].body
      /\ calls[c1].args = <<>> => Len(calls[c1].requests) = 1

\* the same explorerGetTransactions call was made by two callers, one after
\* an earlier call of its own had failed and the other still waiting, and
\* both requested the same URL
C20_Witness ==
  \E c1, c2 \in Made :
    /\ c1 # c2
    /\ calls[c1].op = "explorerGetTransactions"
    /\ calls[c2].op = "explorerGetTransactions"
    /\ calls[c1].args = calls[c2].args
    /\ c1 \in Failed
    /\ calls[c2].pc = "awaiting"
    /\ Len(calls[c1].requests) = 1
    /\ calls[c1].requests[1].url = calls[c2].requests[1].url

\* ------------------------------------------------ answered requests ----

\* axios settles the request of caller c: with a response or with a failure
Answer(c) ==
  \/ \E body \in ConcBodies : AxiosResolve(c, body)
  \/ \E e \in ConcFailures : AxiosReject(c, e)

\* the concurrent callers, with an HTTP client that eventually answers
\* every request that is in flight
SpecLive ==
  /\ InitConc
  /\ [][NextConc]_vars
  /\ \A c \in 1..NumCalls : WF_vars(Answer(c))

\* C21: provided the HTTP client eventually answers each request, every
\* call eventually completes: a call with an invalid address completes in
\* the step that makes it, without a request, and any other call completes
\* in the step that delivers the first outcome of its single request, with
\* no further request and no further wait.
C21_CallsComplete ==
  /\ \A c \in 1..NumCalls :
       (calls[c].pc = "awaiting") ~> (calls[c].pc = "done")
  /\ [][\A c \in 1..NumCalls :
          /\ (/\ calls[c].pc # "awaiting"
              /\ calls'[c] # calls[c]
              /\ calls'[c].op \in AddressValidated
              /\ ~SpecValid(calls'[c].args[1])) =>
               /\ calls'[c].pc = "done"
               /\ calls'[c].requests = <<>>
          /\ (calls[c].pc # "awaiting" /\ calls'[c] # calls[c]) =>
               calls'[c].pc \in {"awaiting", "done"}
          /\ (calls[c].pc = "awaiting" /\ calls'[c] # calls[c]) =>
               /\ calls'[c].pc = "done"
               /\ calls'[c].reply.kind # "none"
               /\ calls'[c].requests = calls[c].requests
               /\ Len(calls'[c].requests) = 1]_vars

\* one call has completed on the failure of its single request and another
\* has completed with the sentinel without any request
C21_Witness ==
  \E c1, c2 \in Made :
    /\ calls[c1].pc = "done"
    /\ c1 \in Failed
    /\ Len(calls[c1].requests) = 1
    /\ calls[c2].pc = "done"
    /\ calls[c2].value = Str(INVALID_ADDRESS)
    /\ calls[c2].requests = <<>>

====
